---- MODULE Spec2Model ----
(***************************************************************************)
(* Model of the poll store of ivcp/polls: internal/data/polls.go           *)
(* (PollModel), the ips migration, cmd/api/helpers.go (checkIP), and the   *)
(* option / ledger / filter operations they are used with.                 *)
(*                                                                         *)
(* Every SQL statement is one atomic step.  PollModel.Insert issues three  *)
(* statements on the pool without a transaction, so it is three steps of   *)
(* one worker, and anything may run between them.  Read operations (Get,   *)
(* GetAll, GetVotedIPs, checkIP, CheckToken) are single statements that    *)
(* change nothing: they are operators over the tables, evaluated in every  *)
(* reachable state.                                                        *)
(***************************************************************************)
EXTENDS Integers, Sequences, FiniteSets, TLC

\* ----------------------------------------------------------------- bounds
NumWorkers == 2
MaxPolls == 2
MaxTime == 2
MaxVotes == 2
MaxTotal == 10
MaxOptions == 3

\* -------------------------------------------------------------- constants
EmptyID == 0
ZeroTime == 0
MalformedID == 99

Workers == 1..NumWorkers

Nil == "nil"
ErrRecordNotFound == "ErrRecordNotFound"
ErrNoRows == "pgx.ErrNoRows"
ErrConflict == "Conflict"
ErrInsertPoll == "insert poll"
ErrInsertOptions == "insert poll options"
ErrInsertToken == "insert token"
ErrForeignKey == "foreign key violation"
ErrQuery == "invalid input syntax"

\* ------------------------------------------------------------ input sets
\* the poll values handed to Insert: public and private, with and without
\* description and expiry
In(q, d, e, priv) ==
    [Question |-> q, Description |-> d, ExpiresAt |-> e,
     ResultsVisibility |-> "always", IsPrivate |-> priv]

PublicPoll == In("a question", "", ZeroTime, FALSE)

PrivatePoll == In("a question", "", ZeroTime, TRUE)

PublicPollB == In("b question", "Test description.", 1, FALSE)

PollInputs == { PublicPoll, PublicPollB, PrivatePoll }

\* the poll values handed to Update
UpdateB == In("b question", "Test description.", 1, FALSE)
UpdateA == In("a question", "Test description.", 1, FALSE)
UpdateInputs == { UpdateB, In("a question", "", ZeroTime, FALSE) }

PollIDs == 1..MaxPolls
IDInputs == PollIDs \cup {EmptyID, MalformedID}
OptionIDs == 1..(2 * MaxPolls)
Searches == {"", "a", "test"}
IssuedPlaintexts == {"t1", "t2"}
Plaintexts == IssuedPlaintexts \cup {"t3", "t4"}
Addresses == {"10.0.0.1", "10.0.0.2"}
Sorts == {"created_at", "question", "-created_at", "-question"}
PageSizes == {1, 2}
Pages == {1, 2, 3}
\* the page sizes calculateMetadata is applied to
MetaPageSizes == PageSizes \cup {5}

Opt(v, p) == [ID |-> EmptyID, Value |-> v, Position |-> p, VoteCount |-> 0]

\* option lists handed to Insert: none, one, and two listed against their
\* positions
TwoOptions == << Opt("Two", 1), Opt("One", 0) >>
OneOption == << Opt("One", 0) >>
OptionInputs == { << >>, OneOption, TwoOptions }

\* ------------------------------------------------------------------ state
VARIABLES
    polls,          \* table polls
    poll_options,   \* table poll_options
    tokens,         \* table tokens
    ips,            \* table ips
    nextPollID,     \* id generator of polls
    nextOptionID,   \* id generator of poll_options
    now,            \* the database clock, NOW()
    pc,             \* per worker: where it is inside PollModel.Insert
    poll,           \* per worker: the *Poll value Insert is writing into
    tokenHash,      \* per worker: the tokenHash argument of Insert
    deleted,        \* history: ids on which PollModel.Delete has succeeded
    voted,          \* history: per option id, the Vote calls that returned nil
    recorded,       \* history: the ledger rows RecordVote has inserted
    calc,           \* calculateMetadata applied to arguments drawn in Init
    tx,             \* the transaction of UpdatePosition: its batch and progress
    last            \* the step taken last: the operation and what it returned

vars == << polls, poll_options, tokens, ips, nextPollID, nextOptionID, now,
           pc, poll, tokenHash, deleted, voted, recorded, calc, tx, last >>

NoPoll == [ID |-> EmptyID, CreatedAt |-> ZeroTime, UpdatedAt |-> ZeroTime,
           Options |-> << >>]

\* ------------------------------------------------------------ pure helpers
\* crypto/sha256: a fixed injective digest, one hash per plaintext
Sha256(t) ==
    CASE t = "t1" -> "h7"
      [] t = "t2" -> "h3"
      [] t = "t3" -> "h5"
      [] t = "t4" -> "h9"
      [] OTHER -> "h0"

\* net.ParseIP / inet: the address in its parsed form, nil when malformed
ParseIP(s) ==
    CASE s = "10.0.0.1" -> << 10, 0, 0, 1 >>
      [] s = "10.0.0.2" -> << 10, 0, 0, 2 >>
      [] OTHER -> << >>

\* to_tsvector('simple', text) / plainto_tsquery('simple', text): lexemes
Lexemes(text) ==
    CASE text = "a question" -> {"a", "question"}
      [] text = "b question" -> {"b", "question"}
      [] text = "a" -> {"a"}
      [] text = "question" -> {"question"}
      [] text = "test" -> {"test"}
      [] text = "Test description." -> {"test", "description"}
      [] text = "One" -> {"one"}
      [] text = "one" -> {"one"}
      [] text = "Two" -> {"two"}
      [] OTHER -> {}

\* text ordering of the question column
QuestionRank(q) ==
    CASE q = "a question" -> 1
      [] q = "b question" -> 2
      [] OTHER -> 0

PollRow(id) == CHOOSE p \in polls : p.id = id
PollExists(id) == \E p \in polls : p.id = id
OptionsOf(id) == {o \in poll_options : o.poll_id = id}

Range(s) == {s[i] : i \in 1..Len(s)}

\* what an operation returned: its name, its id argument, its other
\* argument, the error, and the *Poll it wrote into
Ret(op, id, arg, err, p) == [op |-> op, id |-> id, arg |-> arg, err |-> err, poll |-> p]

\* tokens: hash is the key, poll_id references polls (id)
TokenInsertable(hash, pollID) ==
    /\ PollExists(pollID)
    /\ ~\E t \in tokens : t.hash = hash

\* ips: "ip inet UNIQUE NOT NULL"
IPsUniqueViolation(pollID, ip) == \E r \in ips : r.ip = ip

\* ON DELETE CASCADE of poll_options, tokens and ips
CascadeOptions(id) == {o \in poll_options : o.poll_id # id}
CascadeTokens(id) == {t \in tokens : t.poll_id # id}

CascadeIPs_None(id) == ips

CascadeIPs(id) == {r \in ips : r.poll_id # id}

VoteIncrement_Overwrite(o) == [o EXCEPT !.vote_count = 1]

\* SET vote_count = vote_count + 1
VoteIncrement(o) == [o EXCEPT !.vote_count = o.vote_count + 1]

RECURSIVE SumUpTo(_, _)
SumUpTo(f, n) == IF n = 0 THEN 0 ELSE f[n] + SumUpTo(f, n - 1)

\* the Vote calls that have returned nil so far
TotalVotes == SumUpTo(voted, 2 * MaxPolls)

NoCalc == [totalRecords |-> 0, page |-> 0, pageSize |-> 0, applied |-> FALSE,
           metadata |-> [CurrentPage |-> 0, PageSize |-> 0, FirstPage |-> 0,
                         LastPage |-> 0, TotalRecords |-> 0]]

\* no UpdatePosition has begun
NoTx == [active |-> FALSE, batch |-> << >>, done |-> 0, before |-> {}, err |-> Nil]

\* ------------------------------------------------------------------- Init
Init ==
    /\ polls = {}
    /\ poll_options = {}
    /\ tokens = {}
    /\ ips = {}
    /\ nextPollID = 1
    /\ nextOptionID = 1
    /\ now = 1
    /\ pc = [w \in Workers |-> "idle"]
    /\ poll = [w \in Workers |-> NoPoll]
    /\ tokenHash = [w \in Workers |-> ""]
    /\ deleted = {}
    /\ voted = [o \in OptionIDs |-> 0]
    /\ recorded = {}
    /\ tx = NoTx
    /\ calc = NoCalc
    /\ last = Ret("none", EmptyID, "", Nil, NoPoll)

\* ------------------------------------------------- PollModel.Insert, step 1
\* INSERT INTO polls ... RETURNING id, created_at, updated_at
InsertPollRow(w, in, opts, hash) ==
    /\ pc[w] = "idle"
    /\ nextPollID <= MaxPolls
    /\ \/ /\ polls' = polls \cup
                 {[id |-> nextPollID, question |-> in.Question,
                   description |-> in.Description, created_at |-> now,
                   updated_at |-> now, expires_at |-> in.ExpiresAt,
                   results_visibility |-> in.ResultsVisibility,
                   is_private |-> in.IsPrivate]}
          /\ nextPollID' = nextPollID + 1
          /\ poll' = [poll EXCEPT ![w] =
                 [ID |-> nextPollID, CreatedAt |-> now, UpdatedAt |-> now,
                  Options |-> opts]]
          /\ tokenHash' = [tokenHash EXCEPT ![w] = hash]
          /\ pc' = [pc EXCEPT ![w] = "options"]
          /\ last' = Ret("Insert.poll", nextPollID, "", Nil, NoPoll)
       \/ /\ last' = Ret("Insert", EmptyID, "", ErrInsertPoll, NoPoll)
          /\ UNCHANGED << polls, nextPollID, poll, tokenHash, pc >>
    /\ UNCHANGED << poll_options, tokens, ips, nextOptionID, now, deleted,
                    voted, recorded, calc, tx >>

\* the rows of the multi-row INSERT INTO poll_options, in VALUES order
NewOptionRows(opts, pollID, firstID) ==
    [i \in 1..Len(opts) |->
        [id |-> firstID + i - 1, poll_id |-> pollID, value |-> opts[i].Value,
         position |-> opts[i].Position, vote_count |-> opts[i].VoteCount]]

ScanOptionIDs_Reversed(opts, rows) ==
    [i \in 1..Len(opts) |-> [opts[i] EXCEPT !.ID = rows[Len(opts) + 1 - i].id]]

ScanOptionIDs_FirstOnly(opts, rows) ==
    [i \in 1..Len(opts) |-> IF i = 1 THEN [opts[i] EXCEPT !.ID = rows[i].id] ELSE opts[i]]

\* rows.Scan(&poll.Options[optionIndex].ID) over RETURNING id
ScanOptionIDs(opts, rows) ==
    [i \in 1..Len(opts) |-> [opts[i] EXCEPT !.ID = rows[i].id]]

InsertFail(w, err) ==
    /\ pc' = [pc EXCEPT ![w] = "idle"]
    /\ last' = Ret("Insert", poll[w].ID, "", err, NoPoll)
    /\ poll' = [poll EXCEPT ![w] = NoPoll]
    /\ tokenHash' = [tokenHash EXCEPT ![w] = ""]

\* ------------------------------------------------- PollModel.Insert, step 2
\* INSERT INTO poll_options (...) VALUES (...), ... RETURNING id
InsertOptionRows(w) ==
    /\ pc[w] = "options"
    /\ LET opts == poll[w].Options
           rows == NewOptionRows(opts, poll[w].ID, nextOptionID)
       IN \/ /\ Len(opts) > 0
             /\ PollExists(poll[w].ID)
             /\ poll_options' = poll_options \cup Range(rows)
             /\ nextOptionID' = nextOptionID + Len(opts)
             /\ poll' = [poll EXCEPT ![w].Options = ScanOptionIDs(opts, rows)]
             /\ pc' = [pc EXCEPT ![w] = "token"]
             /\ last' = Ret("Insert.options", poll[w].ID, "", Nil, NoPoll)
             /\ UNCHANGED tokenHash
          \/ /\ InsertFail(w, ErrInsertOptions)
             /\ UNCHANGED << poll_options, nextOptionID >>
    /\ UNCHANGED << polls, tokens, ips, nextPollID, now, deleted, voted,
                    recorded, calc, tx >>

\* ------------------------------------------------- PollModel.Insert, step 3
\* INSERT INTO tokens (hash, poll_id) VALUES ($1, $2)
InsertTokenRow(w) ==
    /\ pc[w] = "token"
    /\ \/ /\ TokenInsertable(tokenHash[w], poll[w].ID)
          /\ tokens' = tokens \cup {[hash |-> tokenHash[w], poll_id |-> poll[w].ID]}
          /\ pc' = [pc EXCEPT ![w] = "idle"]
          /\ last' = Ret("Insert", poll[w].ID, "", Nil, poll[w])
          /\ poll' = [poll EXCEPT ![w] = NoPoll]
          /\ tokenHash' = [tokenHash EXCEPT ![w] = ""]
       \/ /\ InsertFail(w, ErrInsertToken)
          /\ UNCHANGED tokens
    /\ UNCHANGED << polls, poll_options, ips, nextPollID, nextOptionID, now,
                    deleted, voted, recorded, calc, tx >>

\* ------------------------------------------------------- PollModel.Update
UpdateSet_Coalesce(row, in) ==
    [row EXCEPT !.question = in.Question,
                !.description = IF in.Description = "" THEN row.description
                                ELSE in.Description,
                !.expires_at = in.ExpiresAt,
                !.updated_at = now]

UpdateSet_AllFields(row, in) ==
    [row EXCEPT !.question = in.Question,
                !.description = in.Description,
                !.expires_at = in.ExpiresAt,
                !.results_visibility = in.ResultsVisibility,
                !.is_private = in.IsPrivate,
                !.updated_at = now]

\* SET question = $1, description = $2, expires_at = $3, updated_at = NOW()
UpdateSet(row, in) ==
    [row EXCEPT !.question = in.Question,
                !.description = in.Description,
                !.expires_at = in.ExpiresAt,
                !.updated_at = now]

\* UPDATE polls SET question, description, expires_at, updated_at = NOW()
\* WHERE id = $4 RETURNING updated_at; Scan returns the driver's error as is
Update(id, in) ==
    /\ \/ /\ id = MalformedID \/ id = EmptyID
          /\ last' = Ret("Update", id, "", ErrQuery, NoPoll)
          /\ UNCHANGED polls
       \/ /\ id \notin {MalformedID, EmptyID}
          /\ ~PollExists(id)
          /\ last' = Ret("Update", id, "", ErrNoRows, NoPoll)
          /\ UNCHANGED polls
       \/ /\ PollExists(id)
          /\ polls' = (polls \ {PollRow(id)}) \cup {UpdateSet(PollRow(id), in)}
          /\ last' = Ret("Update", id, "", Nil,
                         [NoPoll EXCEPT !.ID = id, !.UpdatedAt = now])
    /\ UNCHANGED << poll_options, tokens, ips, nextPollID, nextOptionID, now,
                    pc, poll, tokenHash, deleted, voted, recorded, calc, tx >>

\* ------------------------------------------------------- PollModel.Delete
\* DELETE FROM polls WHERE id = $1, with the ON DELETE CASCADE of the tables
\* that reference polls (id)
DeleteResult_AlwaysNil(rowsAffected) == Nil

\* if result.RowsAffected() == 0 { return ErrRecordNotFound }; return nil
DeleteResult(rowsAffected) == IF rowsAffected = 0 THEN ErrRecordNotFound ELSE Nil

\* result.RowsAffected() of DELETE FROM polls WHERE id = $1
RowsAffected(id) == Cardinality({p \in polls : p.id = id})

Delete(id) ==
    /\ \/ /\ id = EmptyID
          /\ last' = Ret("Delete", id, "", ErrRecordNotFound, NoPoll)
          /\ UNCHANGED << polls, poll_options, tokens, ips, deleted >>
       \/ /\ id = MalformedID
          /\ last' = Ret("Delete", id, "", ErrQuery, NoPoll)
          /\ UNCHANGED << polls, poll_options, tokens, ips, deleted >>
       \/ /\ id \notin {MalformedID, EmptyID}
          /\ ~PollExists(id)
          /\ last' = Ret("Delete", id, "", DeleteResult(RowsAffected(id)), NoPoll)
          /\ UNCHANGED << polls, poll_options, tokens, ips, deleted >>
       \/ /\ PollExists(id)
          /\ polls' = polls \ {PollRow(id)}
          /\ poll_options' = CascadeOptions(id)
          /\ tokens' = CascadeTokens(id)
          /\ ips' = CascadeIPs(id)
          /\ deleted' = deleted \cup {id}
          /\ last' = Ret("Delete", id, "", DeleteResult(RowsAffected(id)), NoPoll)
    /\ UNCHANGED << nextPollID, nextOptionID, now, pc, poll, tokenHash, voted,
                    recorded, calc, tx >>

\* ------------------------------------------------------- PollOptions.Vote
\* UPDATE poll_options SET vote_count = vote_count + 1 WHERE id = $1
Vote(optionID) ==
    /\ \/ /\ \E o \in poll_options : o.id = optionID
          /\ TotalVotes < MaxVotes
          /\ poll_options' =
                 {IF o.id = optionID THEN VoteIncrement(o) ELSE o : o \in poll_options}
          /\ voted' = [voted EXCEPT ![optionID] = @ + 1]
          /\ last' = Ret("Vote", optionID, "", Nil, NoPoll)
       \/ /\ ~\E o \in poll_options : o.id = optionID
          /\ last' = Ret("Vote", optionID, "", ErrRecordNotFound, NoPoll)
          /\ UNCHANGED << poll_options, voted >>
    /\ UNCHANGED << polls, tokens, ips, nextPollID, nextOptionID, now,
                    pc, poll, tokenHash, deleted, recorded, calc, tx >>

\* ------------------------------------------------------------- RecordVote
\* INSERT INTO ips (ip, poll_id) VALUES ($1, $2)
RecordVote(pollID, address) ==
    /\ \/ /\ IPsUniqueViolation(pollID, ParseIP(address))
          /\ last' = Ret("RecordVote", pollID, address, ErrConflict, NoPoll)
          /\ UNCHANGED << ips, recorded >>
       \/ /\ ~IPsUniqueViolation(pollID, ParseIP(address))
          /\ ~PollExists(pollID)
          /\ last' = Ret("RecordVote", pollID, address, ErrForeignKey, NoPoll)
          /\ UNCHANGED << ips, recorded >>
       \/ /\ ~IPsUniqueViolation(pollID, ParseIP(address))
          /\ PollExists(pollID)
          /\ ips' = ips \cup {[ip |-> ParseIP(address), poll_id |-> pollID]}
          /\ recorded' = recorded \cup {[ip |-> ParseIP(address), poll_id |-> pollID]}
          /\ last' = Ret("RecordVote", pollID, address, Nil, NoPoll)
    /\ UNCHANGED << polls, poll_options, tokens, nextPollID, nextOptionID, now,
                    pc, poll, tokenHash, deleted, voted, calc, tx >>

\* the database clock advances
Tick ==
    /\ now < MaxTime
    /\ now' = now + 1
    /\ last' = Ret("Tick", EmptyID, "", Nil, NoPoll)
    /\ UNCHANGED << polls, poll_options, tokens, ips, nextPollID, nextOptionID,
                    pc, poll, tokenHash, deleted, voted, recorded, calc, tx >>

\* ------------------------------------------------------------ PollModel.Get
Perms(S) ==
    {f \in [1..Cardinality(S) -> S] :
        \A i, j \in 1..Cardinality(S) : i # j => f[i] # f[j]}

\* the rows of "polls p JOIN poll_options po ON po.poll_id = p.id WHERE p.id = $1"
GetRows(id) == {o \in poll_options : o.poll_id = id /\ PollExists(id)}

\* rows.Scan of one joined row: po.id, po.value, po.position (no vote_count)
ScanOption(o) == [ID |-> o.id, Value |-> o.value, Position |-> o.position, VoteCount |-> 0]

ScanPoll_WithToken(p, options) ==
    [ID |-> p.id, Question |-> p.question, Description |-> p.description,
     CreatedAt |-> p.created_at, UpdatedAt |-> p.updated_at,
     ExpiresAt |-> p.expires_at, ResultsVisibility |-> p.results_visibility,
     IsPrivate |-> p.is_private, Options |-> options,
     Token |-> IF \E t \in tokens : t.poll_id = p.id
               THEN (CHOOSE t \in tokens : t.poll_id = p.id).hash ELSE ""]

\* the Poll value the scans fill: no column is scanned into Token, which keeps
\* its zero value
ScanPoll(p, options) ==
    [ID |-> p.id, Question |-> p.question, Description |-> p.description,
     CreatedAt |-> p.created_at, UpdatedAt |-> p.updated_at,
     ExpiresAt |-> p.expires_at, ResultsVisibility |-> p.results_visibility,
     IsPrivate |-> p.is_private, Options |-> options, Token |-> ""]

Get_NoOptionCheck(id) ==
    IF id = EmptyID THEN {[err |-> ErrRecordNotFound]}
    ELSE IF id = MalformedID THEN {[err |-> ErrQuery]}
    ELSE IF ~PollExists(id) THEN {[err |-> ErrRecordNotFound]}
    ELSE {[err |-> Nil,
           poll |-> ScanPoll(PollRow(id), [i \in DOMAIN rows |-> ScanOption(rows[i])])] :
             rows \in Perms(GetRows(id))}

\* every value Get(id) can return: the query has no ORDER BY, so the joined
\* rows come in any order
Get(id) ==
    IF id = EmptyID THEN {[err |-> ErrRecordNotFound]}
    ELSE IF id = MalformedID THEN {[err |-> ErrQuery]}
    ELSE IF GetRows(id) = {} THEN {[err |-> ErrRecordNotFound]}
    ELSE {[err |-> Nil,
           poll |-> ScanPoll(PollRow(id), [i \in DOMAIN rows |-> ScanOption(rows[i])])] :
             rows \in Perms(GetRows(id))}

\* ------------------------------------------------------------------ Filters
\* Filters.sortColumn, sortDirection, limit, offset
sortColumn(sort) ==
    CASE sort \in {"created_at", "-created_at"} -> "created_at"
      [] sort \in {"question", "-question"} -> "question"

sortDirection(sort) == IF sort \in {"-created_at", "-question"} THEN "DESC" ELSE "ASC"

limit(f) == f.PageSize
offset(f) == (f.Page - 1) * f.PageSize

calculateMetadata_Floor(totalRecords, page, pageSize) ==
    IF totalRecords = 0
    THEN [CurrentPage |-> 0, PageSize |-> 0, FirstPage |-> 0, LastPage |-> 0,
          TotalRecords |-> 0]
    ELSE [CurrentPage |-> page, PageSize |-> pageSize, FirstPage |-> 1,
          LastPage |-> totalRecords \div pageSize, TotalRecords |-> totalRecords]

ZeroMetadata ==
    [CurrentPage |-> 0, PageSize |-> 0, FirstPage |-> 0, LastPage |-> 0,
     TotalRecords |-> 0]

calculateMetadata(totalRecords, page, pageSize) ==
    IF totalRecords = 0 THEN ZeroMetadata
    ELSE [CurrentPage |-> page, PageSize |-> pageSize, FirstPage |-> 1,
          LastPage |-> (totalRecords + pageSize - 1) \div pageSize,
          TotalRecords |-> totalRecords]

\* --------------------------------------------------------- PollModel.GetAll
\* to_tsvector('simple', question) @@ plainto_tsquery('simple', $1) OR $1 = ''
Matches(question, search) ==
    \/ search = ""
    \/ /\ Lexemes(search) # {}
       /\ Lexemes(search) \subseteq Lexemes(question)

Filtered_LeftJoin(search) ==
    {p \in polls : /\ Matches(p.question, search)
                   /\ p.is_private = FALSE}

Filtered_NoPrivateTest(search) ==
    {p \in polls : /\ \E o \in poll_options : o.poll_id = p.id
                   /\ Matches(p.question, search)}

Filtered_AnyField(search) ==
    {p \in polls : /\ \E o \in poll_options : o.poll_id = p.id
                   /\ \/ Matches(p.question, search)
                      \/ Matches(p.description, search)
                      \/ \E o \in poll_options :
                            o.poll_id = p.id /\ Matches(o.value, search)
                   /\ p.is_private = FALSE}

\* FROM polls p JOIN poll_options po ... WHERE ... AND p.is_private = false
\* GROUP BY p.id
Filtered(search) ==
    {p \in polls : /\ \E o \in poll_options : o.poll_id = p.id
                   /\ Matches(p.question, search)
                   /\ p.is_private = FALSE}

SortKey(p, column) == IF column = "question" THEN QuestionRank(p.question) ELSE p.created_at

\* ORDER BY <column> <direction>, id ASC
Before(p, q, sort) ==
    LET kp == SortKey(p, sortColumn(sort))
        kq == SortKey(q, sortColumn(sort))
    IN \/ sortDirection(sort) = "ASC" /\ kp < kq
       \/ sortDirection(sort) = "DESC" /\ kp > kq
       \/ kp = kq /\ p.id < q.id

RECURSIVE Ordered(_, _)
Ordered(S, sort) ==
    IF S = {} THEN << >>
    ELSE LET first == CHOOSE p \in S : \A q \in S \ {p} : Before(p, q, sort)
         IN << first >> \o Ordered(S \ {first}, sort)

PageOf_NoOffset(s, f) ==
    SubSeq(s, 1, IF limit(f) < Len(s) THEN limit(f) ELSE Len(s))

\* LIMIT $2 OFFSET $3
PageOf(s, f) ==
    IF offset(f) >= Len(s) THEN << >>
    ELSE SubSeq(s, offset(f) + 1,
                IF offset(f) + limit(f) < Len(s) THEN offset(f) + limit(f) ELSE Len(s))

\* one scanned row; the options are the jsonb_agg of the poll's rows, which has
\* no ORDER BY and is kept as a set; is_private is not selected
ScanListed(p) ==
    [ScanPoll(p, {ScanOption(o) : o \in OptionsOf(p.id)}) EXCEPT !.IsPrivate = FALSE]

TotalRecords_PageLength(page, matched) == Len(page)

TotalRecords_SeparateCount(page, matched) == Cardinality(matched)

\* totalRecords is scanned from count(*) OVER() of each row of the page, the
\* number of grouped rows before LIMIT: it stays 0 when the page has no row
TotalRecords(page, matched) == IF page = << >> THEN 0 ELSE Cardinality(matched)

GetAll(search, f) ==
    LET matched == Filtered(search)
        page == PageOf(Ordered(matched, f.Sort), f)
    IN [polls |-> [i \in DOMAIN page |-> ScanListed(page[i])],
        metadata |-> calculateMetadata(TotalRecords(page, matched), f.Page, f.PageSize),
        err |-> Nil]

AllFilters == [Page : Pages, PageSize : PageSizes, Sort : Sorts]

\* ---------------------------------------------- PollModel.GetVotedIPs, checkIP
GetVotedIPs_AllPolls(pollID) == {r.ip : r \in ips}

GetVotedIPs(pollID) == {r.ip : r \in {x \in ips : x.poll_id = pollID}}

checkIP(pollID, ip) == \E storedIP \in GetVotedIPs(pollID) : storedIP = ParseIP(ip)

\* ----------------------------------------------------- PollModel.CheckToken
CheckToken_NoHash(tokenPlaintext) ==
    IF tokens = {} THEN {[pollID |-> EmptyID, err |-> ErrRecordNotFound]}
    ELSE {[pollID |-> t.poll_id, err |-> Nil] : t \in tokens}

\* every value CheckToken can return for the plaintext
CheckToken(tokenPlaintext) ==
    LET rows == {t \in tokens : t.hash = Sha256(tokenPlaintext)}
    IN IF rows = {} THEN {[pollID |-> EmptyID, err |-> ErrRecordNotFound]}
       ELSE {[pollID |-> t.poll_id, err |-> Nil] : t \in rows}

\* ------------------------------------------------------------ specifications
\* poll creation and deletion: every option list and token, one poll value
Next ==
    \/ \E w \in Workers, opts \in OptionInputs, t \in IssuedPlaintexts :
          InsertPollRow(w, PublicPoll, opts, Sha256(t))
    \/ \E w \in Workers : InsertOptionRows(w)
    \/ \E w \in Workers : InsertTokenRow(w)
    \/ \E id \in PollIDs : Delete(id)

Spec == Init /\ [][Next]_vars

\* In the specifications below one worker creates polls, each with a token
\* no poll got before: what they check does not depend on two creations
\* running at once or on two polls being given one token, which Spec covers.
Creator == CHOOSE w \in Workers : \A v \in Workers : w <= v
FreshToken ==
    CASE nextPollID = 1 -> "t1"
      [] nextPollID = 2 -> "t2"
      [] OTHER -> "t4"

\* voting: polls of two options, votes, deletion, the clock
NextVote ==
    \/ InsertPollRow(Creator, PublicPoll, TwoOptions, Sha256(FreshToken))
    \/ InsertOptionRows(Creator)
    \/ InsertTokenRow(Creator)
    \/ \E o \in OptionIDs : Vote(o)
    \/ \E id \in PollIDs : Delete(id)
    \/ Tick

SpecVote == Init /\ [][NextVote]_vars

\* the vote ledger: polls, recorded votes, deletion
NextLedger ==
    \/ InsertPollRow(Creator, PublicPoll, TwoOptions, Sha256(FreshToken))
    \/ InsertOptionRows(Creator)
    \/ InsertTokenRow(Creator)
    \/ \E p \in PollIDs, a \in Addresses : RecordVote(p, a)
    \/ \E id \in IDInputs : Delete(id)

SpecLedger == Init /\ [][NextLedger]_vars

\* listing: public and private polls, updates, deletion, every form of id
NextList ==
    \/ \E in \in PollInputs :
          InsertPollRow(Creator, in, OneOption, Sha256(FreshToken))
    \/ InsertOptionRows(Creator)
    \/ InsertTokenRow(Creator)
    \/ \E id \in IDInputs, in \in UpdateInputs : Update(id, in)
    \/ \E id \in IDInputs : Delete(id)

SpecList == Init /\ [][NextList]_vars

\* private polls under updates and votes
NextPrivate ==
    \/ \E in \in {PublicPollB, PrivatePoll} :
          InsertPollRow(Creator, in, OneOption, Sha256(FreshToken))
    \/ InsertOptionRows(Creator)
    \/ InsertTokenRow(Creator)
    \/ \E id \in PollIDs : Update(id, UpdateA)
    \/ \E o \in PollIDs : Vote(o)

SpecPrivate == Init /\ [][NextPrivate]_vars

\* calculateMetadata on every argument triple
InitMeta ==
    /\ polls = {}
    /\ poll_options = {}
    /\ tokens = {}
    /\ ips = {}
    /\ nextPollID = 1
    /\ nextOptionID = 1
    /\ now = 1
    /\ pc = [w \in Workers |-> "idle"]
    /\ poll = [w \in Workers |-> NoPoll]
    /\ tokenHash = [w \in Workers |-> ""]
    /\ deleted = {}
    /\ voted = [o \in OptionIDs |-> 0]
    /\ recorded = {}
    /\ tx = NoTx
    /\ last = Ret("none", EmptyID, "", Nil, NoPoll)
    /\ calc \in [totalRecords : 0..MaxTotal, page : Pages, pageSize : MetaPageSizes,
                  applied : {FALSE}, metadata : {NoCalc.metadata}]

ApplyCalculateMetadata ==
    /\ ~calc.applied
    /\ calc' = [calc EXCEPT !.applied = TRUE, !.metadata =
                   calculateMetadata(calc.totalRecords, calc.page, calc.pageSize)]
    /\ last' = Ret("calculateMetadata", EmptyID, "", Nil, NoPoll)
    /\ UNCHANGED << polls, poll_options, tokens, ips, nextPollID, nextOptionID,
                    now, pc, poll, tokenHash, deleted, voted, recorded, tx >>

NextMeta == ApplyCalculateMetadata

SpecMeta == InitMeta /\ [][NextMeta]_vars

\* ---------------------------------------------------------------- resolveSort
ErrInvalidSortField == "InvalidSortField"

\* sort expressions a caller may hand in: the safelisted ones and others
SortInputs == Sorts \cup {"bogus", "-bogus", ""}

\* the safelist of the listing, and one that lacks "-created_at"
Safelists == { Sorts, {"question", "-question", "created_at"} }

\* the expression without its leading direction marker "-"
StripMarker(s) ==
    CASE s = "-created_at" -> "created_at"
      [] s = "-question" -> "question"
      [] s = "-bogus" -> "bogus"
      [] OTHER -> s

HasMarker(s) == s \in {"-created_at", "-question", "-bogus"}

resolveSort_Unchecked(requested, safelist) ==
    [err |-> Nil, column |-> StripMarker(requested),
     direction |-> IF HasMarker(requested) THEN "DESC" ELSE "ASC"]

\* resolveSort(requested, safelist): InvalidSortField if the expression,
\* stripped of its marker, is absent from the safelist
resolveSort(requested, safelist) ==
    IF StripMarker(requested) \notin safelist
    THEN [err |-> ErrInvalidSortField, column |-> "", direction |-> ""]
    ELSE [err |-> Nil, column |-> StripMarker(requested),
          direction |-> IF HasMarker(requested) THEN "DESC" ELSE "ASC"]

NoQuery == << >>

\* the text and arguments of the listing query: ORDER BY %s %s, id ASC
\* LIMIT $2 OFFSET $3, built only from a resolved sort
ListQuery(search, requested, safelist, page, pageSize) ==
    LET r == resolveSort(requested, safelist)
    IN IF r.err # Nil
       THEN [err |-> r.err, query |-> NoQuery]
       ELSE [err |-> Nil,
             query |-> << "ORDER BY", r.column, r.direction, "id", "ASC",
                          search, pageSize, (page - 1) * pageSize >>]

\* resolveSort and the query construction on every sort expression
InitSort ==
    /\ polls = {}
    /\ poll_options = {}
    /\ tokens = {}
    /\ ips = {}
    /\ nextPollID = 1
    /\ nextOptionID = 1
    /\ now = 1
    /\ pc = [w \in Workers |-> "idle"]
    /\ poll = [w \in Workers |-> NoPoll]
    /\ tokenHash = [w \in Workers |-> ""]
    /\ deleted = {}
    /\ voted = [o \in OptionIDs |-> 0]
    /\ recorded = {}
    /\ tx = NoTx
    /\ last = Ret("none", EmptyID, "", Nil, NoPoll)
    /\ calc \in [requested : SortInputs, safelist : Safelists, search : Searches,
                  page : Pages, pageSize : PageSizes, applied : {FALSE},
                  resolved : {[err |-> Nil, column |-> "", direction |-> ""]},
                  listing : {[err |-> Nil, query |-> NoQuery]}]

ApplyResolveSort ==
    /\ ~calc.applied
    /\ calc' = [calc EXCEPT
                   !.applied = TRUE,
                   !.resolved = resolveSort(calc.requested, calc.safelist),
                   !.listing = ListQuery(calc.search, calc.requested, calc.safelist,
                                         calc.page, calc.pageSize)]
    /\ last' = Ret("resolveSort", EmptyID, calc.requested, Nil, NoPoll)
    /\ UNCHANGED << polls, poll_options, tokens, ips, nextPollID, nextOptionID,
                    now, pc, poll, tokenHash, deleted, voted, recorded, tx >>

NextSort == ApplyResolveSort

SpecSort == InitSort /\ [][NextSort]_vars

\* paging through sorted listings: polls with different questions created at
\* different times, deletion
NextPages ==
    \/ \E in \in {PublicPoll, PublicPollB} :
          InsertPollRow(Creator, in, OneOption, Sha256(FreshToken))
    \/ InsertOptionRows(Creator)
    \/ InsertTokenRow(Creator)
    \/ \E id \in PollIDs : Delete(id)
    \/ Tick

SpecPages == Init /\ [][NextPages]_vars

\* updates: private polls, updates at different times, votes
NextUpdate ==
    \/ InsertPollRow(Creator, PrivatePoll, OneOption, Sha256(FreshToken))
    \/ InsertOptionRows(Creator)
    \/ InsertTokenRow(Creator)
    \/ \E id \in PollIDs : Update(id, UpdateB)
    \/ \E o \in PollIDs : Vote(o)
    \/ Tick

SpecUpdate == Init /\ [][NextUpdate]_vars

\* ------------------------------------------------ PollOptions.UpdatePosition
\* the (id, new position) lists handed to UpdatePosition: two options of one
\* poll, and one whose second id belongs to the next poll
Move(id, position) == [ID |-> id, Position |-> position]
PositionBatches ==
    { << Move(2, 2), Move(1, 3) >>,
      << Move(1, 2), Move(3, 3) >> }

\* UPDATE poll_options SET position = $1 WHERE id = $2
SetPosition(table, item) ==
    {IF o.id = item.ID THEN [o EXCEPT !.position = item.Position] ELSE o : o \in table}

RECURSIVE ApplyBatch(_, _, _)
ApplyBatch(table, batch, k) ==
    IF k = 0 THEN table
    ELSE SetPosition(ApplyBatch(table, batch, k - 1), batch[k])

InTransaction_Autocommit(table, item) == SetPosition(table, item)

\* what the other workers read of the table after a statement of a
\* transaction that has not committed: the table as it was
InTransaction(table, item) == table

\* UpdatePosition begins its transaction
UpdatePositionBegin(batch) ==
    /\ ~tx.active
    /\ tx' = [active |-> TRUE, batch |-> batch, done |-> 0,
              before |-> poll_options, err |-> Nil]
    /\ last' = Ret("UpdatePosition.begin", EmptyID, "", Nil, NoPoll)
    /\ UNCHANGED << polls, poll_options, tokens, ips, nextPollID, nextOptionID,
                    now, pc, poll, tokenHash, deleted, voted, recorded, calc >>

\* one statement of the batch: it moves its option inside the transaction, or
\* matches no option or fails, and then the transaction is rolled back
UpdatePositionStatement ==
    /\ tx.active
    /\ tx.done < Len(tx.batch)
    /\ LET item == tx.batch[tx.done + 1]
       IN \/ /\ \E o \in poll_options : o.id = item.ID
             /\ poll_options' = InTransaction(poll_options, item)
             /\ tx' = [tx EXCEPT !.done = tx.done + 1]
             /\ last' = Ret("UpdatePosition.statement", item.ID, "", Nil, NoPoll)
          \/ /\ ~\E o \in poll_options : o.id = item.ID
             /\ tx' = [tx EXCEPT !.active = FALSE, !.err = ErrRecordNotFound]
             /\ last' = Ret("UpdatePosition", item.ID, "", ErrRecordNotFound, NoPoll)
             /\ UNCHANGED poll_options
          \/ /\ tx' = [tx EXCEPT !.active = FALSE, !.err = ErrQuery]
             /\ last' = Ret("UpdatePosition", item.ID, "", ErrQuery, NoPoll)
             /\ UNCHANGED poll_options
    /\ UNCHANGED << polls, tokens, ips, nextPollID, nextOptionID, now, pc, poll,
                    tokenHash, deleted, voted, recorded, calc >>

\* the transaction commits: every statement takes effect at once
UpdatePositionCommit ==
    /\ tx.active
    /\ tx.done = Len(tx.batch)
    /\ poll_options' = ApplyBatch(poll_options, tx.batch, Len(tx.batch))
    /\ tx' = [tx EXCEPT !.active = FALSE]
    /\ last' = Ret("UpdatePosition", EmptyID, "", Nil, NoPoll)
    /\ UNCHANGED << polls, tokens, ips, nextPollID, nextOptionID, now, pc, poll,
                    tokenHash, deleted, voted, recorded, calc >>

\* repositioning: polls of two options created while batches are applied
NextPosition ==
    \/ InsertPollRow(Creator, PublicPoll, TwoOptions, Sha256(FreshToken))
    \/ InsertOptionRows(Creator)
    \/ InsertTokenRow(Creator)
    \/ \E batch \in PositionBatches : UpdatePositionBegin(batch)
    \/ UpdatePositionStatement
    \/ UpdatePositionCommit

SpecPosition == Init /\ [][NextPosition]_vars

\* ------------------------------------------- PollOptions.Insert/UpdateValue/Delete
\* the option handed to PollOptions.Insert: a value and a position, no id and
\* no vote count
NewOption == Opt("Four", 3)
NewValue == "Test change value"

OptionInsertTouch_None(row) == row

\* the parent poll's updated_at is set to the time of the insert
OptionInsertTouch(row) == [row EXCEPT !.updated_at = now]

\* PollOptions.Insert(option, pollID): one new poll_options row of the poll,
\* with a fresh id and no votes, and the touch of the parent poll
OptionInsert(option, pollID) ==
    /\ \/ /\ PollExists(pollID)
          /\ nextOptionID <= MaxOptions
          /\ poll_options' = poll_options \cup
                 {[id |-> nextOptionID, poll_id |-> pollID, value |-> option.Value,
                   position |-> option.Position, vote_count |-> 0]}
          /\ nextOptionID' = nextOptionID + 1
          /\ polls' = (polls \ {PollRow(pollID)}) \cup {OptionInsertTouch(PollRow(pollID))}
          /\ last' = Ret("PollOptions.Insert", pollID, option.Value, Nil,
                         [NoPoll EXCEPT !.Options = << [option EXCEPT !.ID = nextOptionID] >>])
       \/ /\ ~PollExists(pollID)
          /\ last' = Ret("PollOptions.Insert", pollID, option.Value, ErrForeignKey, NoPoll)
          /\ UNCHANGED << polls, poll_options, nextOptionID >>
    /\ UNCHANGED << tokens, ips, nextPollID, now, pc, poll, tokenHash, deleted,
                    voted, recorded, calc, tx >>

SetValue_WholeOption(o, value) == [o EXCEPT !.value = value, !.vote_count = 0]

\* only the value field of the row is overwritten
SetValue(o, value) == [o EXCEPT !.value = value]

\* PollOptions.UpdateValue(option): overwrites the value of the option by id
UpdateValue(optionID, value) ==
    /\ \/ /\ \E o \in poll_options : o.id = optionID
          /\ poll_options' =
                 {IF o.id = optionID THEN SetValue(o, value) ELSE o : o \in poll_options}
          /\ last' = Ret("UpdateValue", optionID, value, Nil, NoPoll)
       \/ /\ ~\E o \in poll_options : o.id = optionID
          /\ last' = Ret("UpdateValue", optionID, value, ErrRecordNotFound, NoPoll)
          /\ UNCHANGED poll_options
    /\ UNCHANGED << polls, tokens, ips, nextPollID, nextOptionID, now, pc, poll,
                    tokenHash, deleted, voted, recorded, calc, tx >>

\* PollOptions.Delete(optionID): removes the option row, nothing else
OptionDelete(optionID) ==
    /\ \/ /\ \E o \in poll_options : o.id = optionID
          /\ poll_options' = {o \in poll_options : o.id # optionID}
          /\ last' = Ret("PollOptions.Delete", optionID, "", Nil, NoPoll)
       \/ /\ ~\E o \in poll_options : o.id = optionID
          /\ last' = Ret("PollOptions.Delete", optionID, "", ErrRecordNotFound, NoPoll)
          /\ UNCHANGED poll_options
    /\ UNCHANGED << polls, tokens, ips, nextPollID, nextOptionID, now, pc, poll,
                    tokenHash, deleted, voted, recorded, calc, tx >>

\* the option store: options added to polls, the clock
NextOptions ==
    \/ InsertPollRow(Creator, PublicPoll, OneOption, Sha256(FreshToken))
    \/ InsertOptionRows(Creator)
    \/ InsertTokenRow(Creator)
    \/ \E id \in PollIDs : OptionInsert(NewOption, id)
    \/ Tick

SpecOptions == Init /\ [][NextOptions]_vars

\* polls without options: public and private polls, creations that fail,
\* options added and deleted one by one
NextAgree ==
    \/ \E in \in {PublicPoll, PrivatePoll} :
          InsertPollRow(Creator, in, OneOption, Sha256(FreshToken))
    \/ InsertOptionRows(Creator)
    \/ InsertTokenRow(Creator)
    \/ \E o \in OptionIDs : OptionDelete(o)

SpecAgree == Init /\ [][NextAgree]_vars

\* options created with a vote count handed in by the caller
SeededOptions == << [Opt("Two", 1) EXCEPT !.VoteCount = 1] >>

\* the first poll, its seeded option, and a batch that moves that option and
\* the next
SeededID == CHOOSE id \in PollIDs : \A other \in PollIDs : id <= other
SeededBatch == << Move(SeededID, 3), Move(SeededID + 1, 2) >>

\* vote counts: one seeded poll at a time under every operation that writes
\* options or polls
NextCounts ==
    \/ /\ polls = {}
       /\ InsertPollRow(Creator, PublicPoll, SeededOptions, Sha256(FreshToken))
    \/ InsertOptionRows(Creator)
    \/ InsertTokenRow(Creator)
    \/ Vote(SeededID)
    \/ UpdateValue(SeededID, NewValue)
    \/ UpdatePositionBegin(SeededBatch)
    \/ UpdatePositionStatement
    \/ UpdatePositionCommit
    \/ OptionInsert(NewOption, SeededID)
    \/ Update(SeededID, UpdateB)

SpecCounts == Init /\ [][NextCounts]_vars

\* ------------------------------------------ PollModel.Update, caller by caller
\* the *Poll a caller hands to Update: its id and the three fields to write
UpdateArg(id, in) ==
    [ID |-> id, CreatedAt |-> ZeroTime, UpdatedAt |-> ZeroTime, Options |-> << >>,
     Question |-> in.Question, Description |-> in.Description,
     ExpiresAt |-> in.ExpiresAt]

\* Update is called: args holds the poll's question, description, expiry, id
UpdateBegin(w, id, in) ==
    /\ pc[w] = "idle"
    /\ pc' = [pc EXCEPT ![w] = "update"]
    /\ poll' = [poll EXCEPT ![w] = UpdateArg(id, in)]
    /\ last' = Ret("Update.begin", id, "", Nil, NoPoll)
    /\ UNCHANGED << polls, poll_options, tokens, ips, nextPollID, nextOptionID,
                    now, tokenHash, deleted, voted, recorded, calc, tx >>

\* p.DB.QueryRow(ctx, query, args...).Scan(&poll.UpdatedAt) of that caller, and
\* the return: the *Poll stays with the caller
UpdateStatement(w) ==
    /\ pc[w] = "update"
    /\ pc' = [pc EXCEPT ![w] = "idle"]
    /\ \/ /\ ~PollExists(poll[w].ID)
          /\ last' = Ret("Update", poll[w].ID, "", ErrNoRows, NoPoll)
          /\ UNCHANGED << polls, poll >>
       \/ /\ PollExists(poll[w].ID)
          /\ polls' = (polls \ {PollRow(poll[w].ID)})
                         \cup {UpdateSet(PollRow(poll[w].ID), poll[w])}
          /\ poll' = [poll EXCEPT ![w].UpdatedAt = now]
          /\ last' = Ret("Update", poll[w].ID, "", Nil,
                         [NoPoll EXCEPT !.ID = poll[w].ID, !.UpdatedAt = now])
    /\ UNCHANGED << poll_options, tokens, ips, nextPollID, nextOptionID, now,
                    tokenHash, deleted, voted, recorded, calc, tx >>

\* callers updating the same poll at once
RacedID == CHOOSE id \in PollIDs : \A other \in PollIDs : id <= other

NextRace ==
    \/ InsertPollRow(Creator, PrivatePoll, OneOption, Sha256(FreshToken))
    \/ InsertOptionRows(Creator)
    \/ InsertTokenRow(Creator)
    \/ \E w \in Workers, in \in UpdateInputs : UpdateBegin(w, RacedID, in)
    \/ \E w \in Workers : UpdateStatement(w)

SpecRace == Init /\ [][NextRace]_vars

\* ------------------------------------------------------------------ claims
ListedIDs(search, f) ==
    LET listed == GetAll(search, f).polls
    IN {listed[i].ID : i \in DOMAIN listed}

\* C1: poll creation is all-or-nothing: when Insert has returned an error after
\* writing the poll row, no poll, option or token row of that poll is stored
\* and neither Get nor GetAll returns it.
C1_CreateAllOrNothing ==
    (last.op = "Insert" /\ last.err # Nil /\ last.id # EmptyID) =>
        /\ ~PollExists(last.id)
        /\ OptionsOf(last.id) = {}
        /\ ~\E t \in tokens : t.poll_id = last.id
        /\ \A r \in Get(last.id) : r.err # Nil
        /\ \A search \in Searches, f \in AllFilters : last.id \notin ListedIDs(search, f)

\* C2: votes are not lost: every stored option's vote count is its count at
\* creation (0) plus the number of Vote calls on it that have returned, so N
\* calls add exactly N and each call adds exactly 1.
C2_VotesNotLost ==
    \A o \in poll_options : o.vote_count = voted[o.id]

\* two Vote calls have returned on one option of a poll, beside another option
C2_Witness ==
    /\ last.op = "Vote"
    /\ last.err = Nil
    /\ \E o \in poll_options : o.id = last.id /\ voted[o.id] = 2 /\ o.vote_count = 2
    /\ \E o \in poll_options : o.id # last.id /\ voted[o.id] = 0

LedgerHas(pollID, address) ==
    \E r \in ips : r.poll_id = pollID /\ r.ip = ParseIP(address)

\* C3: RecordVote(pollID, address) on an existing poll fails with Conflict
\* exactly when the pair is already in the ledger, and then leaves the ledger
\* unchanged; for a pair not yet present it succeeds and adds the pair, also
\* when the address is recorded for a different poll.
C3_ConflictIffPairPresent ==
    [][(last'.op = "RecordVote" /\ PollExists(last'.id)) =>
          /\ (last'.err = ErrConflict) <=> LedgerHas(last'.id, last'.arg)
          /\ (last'.err = ErrConflict) => ips' = ips
          /\ ~LedgerHas(last'.id, last'.arg) =>
                /\ last'.err = Nil
                /\ ips' = ips \cup {[ip |-> ParseIP(last'.arg), poll_id |-> last'.id]}
      ]_vars

\* C4: once Delete(id) has succeeded, the poll's option rows and ledger rows
\* are gone: Get(id) fails with NotFound and checkIP(id, a) is false for every
\* address, in every later state; the Delete step leaves the rows of every
\* other poll as they were.
C4_DeleteCascades ==
    /\ [](\A id \in deleted :
            /\ Get(id) = {[err |-> ErrRecordNotFound]}
            /\ OptionsOf(id) = {}
            /\ GetVotedIPs(id) = {}
            /\ \A a \in Addresses : ~checkIP(id, a))
    /\ [][(last'.op = "Delete" /\ last'.err = Nil) =>
            /\ polls' = {p \in polls : p.id # last'.id}
            /\ poll_options' = {o \in poll_options : o.poll_id # last'.id}
            /\ ips' = {r \in ips : r.poll_id # last'.id}
         ]_vars

\* a poll with options and a recorded voter has just been deleted, and another
\* poll still has its options and its voter
C4_Witness ==
    /\ last.op = "Delete"
    /\ last.err = Nil
    /\ last.id \in deleted
    /\ \E r \in recorded : r.poll_id = last.id
    /\ \E p \in polls : OptionsOf(p.id) # {} /\ GetVotedIPs(p.id) # {}

\* C5: CheckToken returns poll id P only for a plaintext whose hash is the hash
\* stored for P; every plaintext whose hash is stored for no poll, issued or
\* not, gets the one NotFound result and no poll id.
C5_CheckTokenOnlyMatchingHash ==
    \A pt \in Plaintexts : \A r \in CheckToken(pt) :
        /\ r.err = Nil =>
              [hash |-> Sha256(pt), poll_id |-> r.pollID] \in tokens
        /\ (~\E t \in tokens : t.hash = Sha256(pt)) =>
              r = [pollID |-> EmptyID, err |-> ErrRecordNotFound]
        /\ r.err \in {Nil, ErrRecordNotFound}

\* a poll holds the token t1, the issued plaintext t2 and the never issued t3
\* match no poll, and both get the same answer
C5_Witness ==
    /\ \E t \in tokens : t.hash = Sha256("t1") /\ CheckToken("t1") = {[pollID |-> t.poll_id, err |-> Nil]}
    /\ deleted # {}
    /\ CheckToken("t3") = {[pollID |-> EmptyID, err |-> ErrRecordNotFound]}
    /\ CheckToken("t3") = CheckToken("t2")

\* C6: when Insert has succeeded on a poll with k options, the poll and each
\* option carry an assigned id, the poll carries its timestamps, and Get of
\* the assigned id returns a poll with exactly k options.
C6_CreateAssignsIdsAndGetCounts ==
    (last.op = "Insert" /\ last.err = Nil) =>
        /\ last.poll.ID # EmptyID
        /\ last.poll.CreatedAt # ZeroTime
        /\ last.poll.UpdatedAt # ZeroTime
        /\ \A i \in DOMAIN last.poll.Options : last.poll.Options[i].ID # EmptyID
        /\ \A r \in Get(last.poll.ID) :
              /\ r.err = Nil
              /\ r.poll.ID = last.poll.ID
              /\ Len(r.poll.Options) = Len(last.poll.Options)

C6_Witness ==
    /\ last.op = "Insert"
    /\ last.err = Nil
    /\ Len(last.poll.Options) = 2
    /\ \E r \in Get(last.poll.ID) : r.err = Nil

\* the public polls with options whose question matches the search
PublicMatching(search) ==
    {p \in polls : /\ ~p.is_private
                   /\ \E o \in poll_options : o.poll_id = p.id
                   /\ Matches(p.question, search)}

\* C7: a poll whose private flag is set is in no GetAll result and is not
\* counted in TotalRecords, for every search, sort and page.
C7_PrivateNeverListed ==
    \A search \in Searches :
        LET n == Cardinality(PublicMatching(search))
        IN \A f \in AllFilters :
              LET r == GetAll(search, f)
              IN /\ \A i \in DOMAIN r.polls : ~PollRow(r.polls[i].ID).is_private
                 /\ r.metadata.TotalRecords <= n

\* a private poll with an option, updated and voted on, whose question matches
\* the search that lists a public poll
C7_Witness ==
    \E p \in polls :
        /\ p.is_private
        /\ p.description = UpdateA.Description
        /\ \E o \in OptionsOf(p.id) : o.vote_count > 0
        /\ Matches(p.question, "a")
        /\ ListedIDs("a", [Page |-> 1, PageSize |-> 2, Sort |-> "question"]) # {}
        /\ p.id \notin ListedIDs("a", [Page |-> 1, PageSize |-> 2, Sort |-> "question"])

\* C8 as stated: TotalRecords is the size of the filtered set on every page.
C8_TotalIsFilteredSetSize ==
    \A search \in Searches :
        LET n == Cardinality(PublicMatching(search))
        IN \A f \in AllFilters : GetAll(search, f).metadata.TotalRecords = n

\* C8, amended: TotalRecords is the size of the filtered set on every page
\* that holds at least one poll, whatever the number of polls on the page,
\* and 0 on a page past the end of the filtered set.
C8_TotalIsFilteredSetSizeOnNonEmptyPage ==
    \A search \in Searches :
        LET n == Cardinality(PublicMatching(search))
        IN \A f \in AllFilters :
              GetAll(search, f).metadata.TotalRecords =
                  IF (f.Page - 1) * f.PageSize < n THEN n ELSE 0

\* two public polls are listed one per page: the page holds one, the total is two
C8_Witness ==
    LET r == GetAll("", [Page |-> 2, PageSize |-> 1, Sort |-> "-created_at"])
    IN /\ Len(r.polls) = 1
       /\ r.metadata.TotalRecords = 2

\* C9: a page past the last page of the filtered set gives no error, no
\* polls, and Metadata with TotalRecords = 0 and LastPage = 0.
C9_PageTooHigh ==
    \A search \in Searches :
        LET n == Cardinality(PublicMatching(search))
        IN \A f \in AllFilters :
            (f.Page - 1) * f.PageSize >= n =>
            LET r == GetAll(search, f)
            IN /\ r.err = Nil
               /\ r.polls = << >>
               /\ r.metadata.TotalRecords = 0
               /\ r.metadata.LastPage = 0

\* public polls exist and the requested page lies past them
C9_Witness ==
    /\ Cardinality(PublicMatching("")) = MaxPolls
    /\ GetAll("", [Page |-> 3, PageSize |-> 2, Sort |-> "-created_at"]).polls = << >>

\* C10: calculateMetadata(total, page, pageSize) is the all-zero Metadata for
\* total = 0, and otherwise carries total, page, pageSize, FirstPage = 1 and
\* LastPage = the least n with n * pageSize >= total.
C10_Metadata ==
    calc.applied =>
        IF calc.totalRecords = 0
        THEN calc.metadata = [CurrentPage |-> 0, PageSize |-> 0, FirstPage |-> 0,
                              LastPage |-> 0, TotalRecords |-> 0]
        ELSE /\ calc.metadata.TotalRecords = calc.totalRecords
             /\ calc.metadata.CurrentPage = calc.page
             /\ calc.metadata.PageSize = calc.pageSize
             /\ calc.metadata.FirstPage = 1
             /\ calc.metadata.LastPage * calc.pageSize >= calc.totalRecords
             /\ (calc.metadata.LastPage - 1) * calc.pageSize < calc.totalRecords

\* buildMetadata(10, 2, 5): LastPage = 2, CurrentPage = 2
C10_Witness ==
    /\ calc.applied
    /\ calc.totalRecords = 10
    /\ calc.page = 2
    /\ calc.pageSize = 5
    /\ calc.metadata.LastPage = 2
    /\ calc.metadata.CurrentPage = 2

C11_WitnessRejected ==
    /\ calc.applied
    /\ calc.requested = "bogus"
    /\ calc.resolved.err = ErrInvalidSortField
    /\ calc.listing.query = NoQuery

\* the polls of pages 1..k of one listing, in page order
RECURSIVE PagesUpTo(_, _, _, _)
PagesUpTo(search, sort, pageSize, k) ==
    IF k = 0 THEN << >>
    ELSE PagesUpTo(search, sort, pageSize, k - 1) \o
         GetAll(search, [Page |-> k, PageSize |-> pageSize, Sort |-> sort]).polls

\* listed poll r may stand before listed poll s under the sort expression
InSortOrder(r, s, sort) ==
    LET byQuestion == sort \in {"question", "-question"}
        kr == IF byQuestion THEN QuestionRank(r.Question) ELSE r.CreatedAt
        ks == IF byQuestion THEN QuestionRank(s.Question) ELSE s.CreatedAt
    IN IF kr = ks THEN r.ID < s.ID
       ELSE IF sort \in {"-created_at", "-question"} THEN kr > ks ELSE kr < ks

\* C12: for every search, sort and page size, each page holds at most
\* pageSize polls, page p holds the polls at places (p-1)*pageSize+1 ..
\* p*pageSize of the listing, and pages 1..LastPage together hold every
\* filtered poll exactly once, sorted by the column and direction with ties
\* broken by ascending id.
C12_PagesAreSlicesOfSortedSet ==
    \A search \in Searches :
        LET matching == PublicMatching(search)
            n == Cardinality(matching)
        IN \A sort \in Sorts, ps \in PageSizes :
              LET lastPage == GetAll(search, [Page |-> 1, PageSize |-> ps,
                                              Sort |-> sort]).metadata.LastPage
                  all == PagesUpTo(search, sort, ps, lastPage)
              IN /\ Len(all) = n
                 /\ {all[i].ID : i \in DOMAIN all} = {p.id : p \in matching}
                 /\ \A i, j \in DOMAIN all : i < j => InSortOrder(all[i], all[j], sort)
                 /\ \A pg \in Pages :
                       LET got == GetAll(search, [Page |-> pg, PageSize |-> ps,
                                                  Sort |-> sort]).polls
                       IN /\ Len(got) <= ps
                          /\ \A i \in DOMAIN got :
                                /\ (pg - 1) * ps + i <= n
                                /\ got[i] = all[(pg - 1) * ps + i]
                          /\ \A k \in 1..ps :
                                (pg - 1) * ps + k <= n => k \in DOMAIN got

\* two polls whose question order is the reverse of their creation order are
\* listed one per page: by question the later poll is on page 1, by creation
\* time the earlier one is
C12_Witness ==
    LET byQ1 == GetAll("", [Page |-> 1, PageSize |-> 1, Sort |-> "question"])
        byQ2 == GetAll("", [Page |-> 2, PageSize |-> 1, Sort |-> "question"])
        byC1 == GetAll("", [Page |-> 1, PageSize |-> 1, Sort |-> "created_at"])
    IN /\ byQ1.metadata.LastPage = 2
       /\ Len(byQ1.polls) = 1
       /\ Len(byQ2.polls) = 1
       /\ Len(byC1.polls) = 1
       /\ byQ1.polls[1].ID > byQ2.polls[1].ID
       /\ byQ1.polls[1].CreatedAt > byQ2.polls[1].CreatedAt
       /\ byC1.polls[1].ID = byQ2.polls[1].ID

\* search texts that match a question, a description, an option value, nothing
FieldSearches == {"", "a", "test", "one"}

\* the public polls with options whose question holds every word of the search
QuestionHits(search) ==
    {p \in polls : /\ ~p.is_private
                   /\ \E o \in poll_options : o.poll_id = p.id
                   /\ \/ search = ""
                      \/ /\ Lexemes(search) # {}
                         /\ Lexemes(search) \subseteq Lexemes(p.question)}

\* C13: with an empty search GetAll lists and counts every public poll (that
\* has options); with a non-empty search it lists and counts exactly the
\* public polls whose question matches, never one that matches only by its
\* description or by an option value.
C13_SearchMatchesQuestionOnly ==
    \A search \in FieldSearches :
        LET hits == QuestionHits(search)
        IN \A f \in AllFilters :
              LET r == GetAll(search, f)
              IN /\ \A i \in DOMAIN r.polls : PollRow(r.polls[i].ID) \in hits
                 /\ r.polls # << >> => r.metadata.TotalRecords = Cardinality(hits)
                 /\ (f.Page = 1 /\ hits # {}) => r.polls # << >>
                 /\ (f.Page = 1 /\ f.PageSize >= Cardinality(hits)) =>
                       {r.polls[i].ID : i \in DOMAIN r.polls} = {p.id : p \in hits}

\* a public poll whose description holds "test" and whose option holds "one",
\* but whose question holds neither, is listed for the empty search and for
\* neither of the two words; another poll is listed for the word "a"
C13_Witness ==
    \E p \in polls :
        /\ ~p.is_private
        /\ p.question = "b question"
        /\ "test" \in Lexemes(p.description)
        /\ \E o \in OptionsOf(p.id) : "one" \in Lexemes(o.value)
        /\ p.id \in ListedIDs("", [Page |-> 1, PageSize |-> 2, Sort |-> "question"])
        /\ ListedIDs("test", [Page |-> 1, PageSize |-> 2, Sort |-> "question"]) = {}
        /\ ListedIDs("one", [Page |-> 1, PageSize |-> 2, Sort |-> "question"]) = {}
        /\ ListedIDs("a", [Page |-> 1, PageSize |-> 2, Sort |-> "question"]) \notin {{}, {p.id}}

\* C14: every poll Get(id) returns has its options in ascending order of
\* position.
C14_GetOrdersByPosition ==
    \A id \in PollIDs : \A r \in Get(id) :
        r.err = Nil =>
            \A i, j \in DOMAIN r.poll.Options :
                i < j => r.poll.Options[i].Position <= r.poll.Options[j].Position

\* C15: Get(id) fails with NotFound, and returns no poll, when id is empty,
\* when no poll has the id, and when the poll row has no option row.
C15_GetNotFound ==
    /\ Get(EmptyID) = {[err |-> ErrRecordNotFound]}
    /\ \A id \in PollIDs :
          (~PollExists(id) \/ OptionsOf(id) = {}) =>
              Get(id) = {[err |-> ErrRecordNotFound]}

\* a poll row is stored without option rows, its Insert having returned, and
\* another id matches no poll
C15_Witness ==
    /\ \A w \in Workers : pc[w] = "idle"
    /\ \E p \in polls : OptionsOf(p.id) = {} /\ Get(p.id) = {[err |-> ErrRecordNotFound]}
    /\ \E id \in PollIDs : ~PollExists(id) /\ Get(id) = {[err |-> ErrRecordNotFound]}

\* C16: Get and Delete with a malformed id give the NotFound outcome they give
\* with a well-formed id that matches no poll.
C16_MalformedIsNotFound ==
    /\ Get(MalformedID) = {[err |-> ErrRecordNotFound]}
    /\ \A id \in PollIDs : ~PollExists(id) => Get(MalformedID) = Get(id)
    /\ (last.op = "Delete" /\ last.id = MalformedID) => last.err = ErrRecordNotFound

\* C17: Update with a well-formed id that matches no poll row fails with
\* ErrRecordNotFound and changes no stored poll.
C17_UpdateUnmatchedNotFound ==
    [][(last'.op = "Update" /\ last'.id \in PollIDs /\ ~PollExists(last'.id)) =>
          /\ last'.err = ErrRecordNotFound
          /\ polls' = polls
      ]_vars

\* C18: a successful Update(poll) gives the poll's row the question,
\* description and expiry handed in and sets its updated_at to the clock's
\* time, later than before whenever the clock has advanced; the row keeps its
\* id, created_at, private flag and results visibility, and every other poll
\* row, every option row with its vote count, and every token row are as
\* before.
C18_UpdateFrame ==
    [][(last'.op = "Update" /\ last'.err = Nil) =>
          /\ PollExists(last'.id)
          /\ \E new \in polls' :
                LET old == PollRow(last'.id)
                IN /\ new.id = old.id
                   /\ \E in \in UpdateInputs :
                         /\ new.question = in.Question
                         /\ new.description = in.Description
                         /\ new.expires_at = in.ExpiresAt
                   /\ new.updated_at = now
                   /\ new.updated_at >= old.updated_at
                   /\ now > old.updated_at => new.updated_at > old.updated_at
                   /\ last'.poll.UpdatedAt = new.updated_at
                   /\ new.created_at = old.created_at
                   /\ new.is_private = old.is_private
                   /\ new.results_visibility = old.results_visibility
                   /\ polls' \ {new} = polls \ {old}
          /\ Cardinality(polls') = Cardinality(polls)
          /\ poll_options' = poll_options
          /\ tokens' = tokens
          /\ ips' = ips
      ]_vars

\* a private poll with a voted option and a token has just been updated, at a
\* later time than it was created, beside another poll
C18_Witness ==
    /\ last.op = "Update"
    /\ last.err = Nil
    /\ \E p \in polls :
          /\ p.id = last.id
          /\ p.is_private
          /\ p.question = UpdateB.Question
          /\ p.updated_at > p.created_at
          /\ \E o \in OptionsOf(p.id) : o.vote_count > 0
          /\ \E t \in tokens : t.poll_id = p.id
    /\ \E q \in polls : q.id # last.id /\ OptionsOf(q.id) # {}

\* C19: Delete(id) with an empty id, or with a well-formed id that matches no
\* poll, fails with ErrRecordNotFound and removes no poll, option, token or
\* ledger row.
C19_DeleteNotFoundRemovesNothing ==
    [][(/\ last'.op = "Delete"
        /\ \/ last'.id = EmptyID
           \/ last'.id \in PollIDs /\ ~PollExists(last'.id)) =>
          /\ last'.err = ErrRecordNotFound
          /\ polls' = polls
          /\ poll_options' = poll_options
          /\ tokens' = tokens
          /\ ips' = ips
      ]_vars

\* Delete of an unmatched id has just failed while a poll with options, a
\* token and a ledger row is stored
C19_Witness ==
    /\ last.op = "Delete"
    /\ last.id \in PollIDs
    /\ last.err = ErrRecordNotFound
    /\ \E p \in polls :
          /\ OptionsOf(p.id) # {}
          /\ GetVotedIPs(p.id) # {}
          /\ \E t \in tokens : t.poll_id = p.id

\* the options Get returns, over every poll: id and position
GetObserved ==
    UNION {{[ID |-> r.poll.Options[i].ID, Position |-> r.poll.Options[i].Position] :
               i \in DOMAIN r.poll.Options} :
           r \in {x \in UNION {Get(id) : id \in PollIDs} : x.err = Nil}}

C20_WitnessCommitted ==
    /\ last.op = "UpdatePosition"
    /\ last.err = Nil
    /\ \A i \in DOMAIN tx.batch : tx.batch[i] \in GetObserved
    /\ \E o \in tx.before : o.id = tx.batch[1].ID /\ o.position # tx.batch[1].Position

\* C21: a successful PollOptions.Insert(option, pollID) adds exactly one option
\* row to that poll, so that Get shows one more option and one of them carries
\* the new value, and sets the parent poll's updated_at to the clock's time,
\* later than before whenever the clock has advanced; no other poll and no
\* other option row changes.
C21_OptionInsertAddsOneAndTouches ==
    [][\A id \in PollIDs :
       (last'.op = "PollOptions.Insert" /\ last'.err = Nil /\ last'.id = id) =>
          LET added == poll_options' \ poll_options
          IN /\ PollExists(id)
             /\ Cardinality(added) = 1
             /\ poll_options \subseteq poll_options'
             /\ \A o \in added :
                   /\ o.poll_id = id
                   /\ o.value = last'.arg
                   /\ o.id = last'.poll.Options[1].ID
                   /\ ~\E old \in poll_options : old.id = o.id
             /\ \A r \in Get(id)' :
                   /\ r.err = Nil
                   /\ Len(r.poll.Options) = Cardinality(OptionsOf(id)) + 1
                   /\ \E i \in DOMAIN r.poll.Options : r.poll.Options[i].Value = last'.arg
                   /\ r.poll.UpdatedAt = now
                   /\ r.poll.UpdatedAt >= PollRow(id).updated_at
                   /\ now > PollRow(id).updated_at =>
                         r.poll.UpdatedAt > PollRow(id).updated_at
             /\ \A p \in polls : p.id # id => p \in polls'
             /\ Cardinality(polls') = Cardinality(polls)
      ]_vars

\* an option has just been added to a poll that had one option, at a later
\* time than the poll was last written, beside another poll
C21_Witness ==
    /\ last.op = "PollOptions.Insert"
    /\ last.err = Nil
    /\ Cardinality(OptionsOf(last.id)) = 2
    /\ \E o \in OptionsOf(last.id) : o.value = NewOption.Value
    /\ \E p \in polls : p.id = last.id /\ p.updated_at > p.created_at
    /\ \E q \in polls : q.id # last.id /\ OptionsOf(q.id) # {}

C23_VisiblePollHasOneToken ==
    /\ \A id \in PollIDs :
          (\E r \in Get(id) : r.err = Nil) =>
             Cardinality({t \in tokens : t.poll_id = id}) = 1
    /\ \A t, u \in tokens : t.hash = u.hash => t.poll_id = u.poll_id

\* the plaintext tokens and their hashes
Secrets == Plaintexts \cup {Sha256(t) : t \in Plaintexts}
TextFields(r) == {r.Question, r.Description, r.ResultsVisibility, r.Token}

\* C24: the tables hold no plaintext token: a row of tokens is a hash and a
\* poll id, the hash is the one handed to Insert, and no column of polls or
\* poll_options holds a plaintext or a hash; and no read returns one: the Token
\* of every poll Get and GetAll return is empty, none of their text fields is
\* a plaintext or a hash, GetVotedIPs returns addresses only, and CheckToken
\* returns a poll id and an error only.
C24_TokenNeverReadable ==
    /\ \A t \in tokens :
          /\ DOMAIN t = {"hash", "poll_id"}
          /\ t.hash \in {Sha256(x) : x \in Plaintexts}
          /\ t.hash \notin Plaintexts
    /\ \A p \in polls :
          /\ "token" \notin DOMAIN p
          /\ {p.question, p.description, p.results_visibility} \cap Secrets = {}
    /\ \A o \in poll_options : o.value \notin Secrets
    /\ \A id \in IDInputs : \A r \in Get(id) :
          r.err = Nil =>
             /\ r.poll.Token = ""
             /\ TextFields(r.poll) \cap Secrets = {}
             /\ \A i \in DOMAIN r.poll.Options : r.poll.Options[i].Value \notin Secrets
    /\ \A f \in AllFilters :
          LET listed == GetAll("", f).polls
          IN \A i \in DOMAIN listed :
                /\ listed[i].Token = ""
                /\ TextFields(listed[i]) \cap Secrets = {}
                /\ \A o \in listed[i].Options : o.Value \notin Secrets
    /\ \A id \in PollIDs : GetVotedIPs(id) \subseteq {ParseIP(a) : a \in Addresses}
    /\ \A x \in Plaintexts : \A r \in CheckToken(x) :
          /\ DOMAIN r = {"pollID", "err"}
          /\ r.pollID \in PollIDs \cup {EmptyID}
          /\ r.err \in {Nil, ErrRecordNotFound}

\* a poll created with the hash of "t1" has a recorded vote: Get and GetAll
\* return it and CheckToken of "t1" returns its id
C24_Witness ==
    \E t \in tokens :
       /\ t.hash = Sha256("t1")
       /\ \E r \in Get(t.poll_id) : r.err = Nil
       /\ \E f \in AllFilters : t.poll_id \in ListedIDs("", f)
       /\ GetVotedIPs(t.poll_id) # {}
       /\ \E r \in CheckToken("t1") : r.err = Nil /\ r.pollID = t.poll_id

\* the callers whose last Update call was on the poll, has returned nil, and
\* has not been followed by another call of theirs
Returned(id) ==
    {w \in Workers : /\ pc[w] = "idle"
                     /\ poll[w].ID = id
                     /\ "Question" \in DOMAIN poll[w]
                     /\ poll[w].UpdatedAt # ZeroTime}
Triple(q, d, e) == << q, d, e >>

\* C25: a statement of Update gives the poll's row the question, description
\* and expiry of its own call, all three; so when the callers have each updated
\* the same poll and every call has returned, the three are together the values
\* one of the calls handed in, never values of two calls; and an Update of a
\* poll that exists returns nil whoever else is updating it.
C25_ConcurrentUpdatesLastWriteWins ==
    /\ [](\A p \in polls :
             Returned(p.id) = Workers =>
                \E w \in Workers :
                   Triple(p.question, p.description, p.expires_at) =
                      Triple(poll[w].Question, poll[w].Description, poll[w].ExpiresAt))
    /\ [][\A w \in Workers :
             (pc[w] = "update" /\ pc'[w] = "idle" /\ PollExists(poll[w].ID)) =>
                /\ last'.op = "Update"
                /\ last'.err = Nil
                /\ \E p \in polls' :
                      /\ p.id = poll[w].ID
                      /\ Triple(p.question, p.description, p.expires_at) =
                            Triple(poll[w].Question, poll[w].Description,
                                   poll[w].ExpiresAt)
          ]_vars

\* every caller has updated one poll, two of them with different values, and
\* every call has returned; the row holds the values of the call that ran last
C25_Witness ==
    \E p \in polls : \E v, w \in Returned(p.id) :
       /\ v # w
       /\ Returned(p.id) = Workers
       /\ poll[v].Question # poll[w].Question
       /\ poll[v].Description # poll[w].Description
       /\ p.question = poll[w].Question
       /\ last.op = "Update"

\* C26: when Insert has returned nil, for every i the id written into the i-th
\* option of the caller's poll is the id of the poll_options row of that poll
\* that carries the i-th option's value and position; no id is left unset, no
\* two options got one id, and the ids ascend in the order the caller gave the
\* options in.
C26_OptionIdsMatchRows ==
    (last.op = "Insert" /\ last.err = Nil) =>
       LET opts == last.poll.Options
       IN /\ \A i \in DOMAIN opts :
                /\ opts[i].ID # EmptyID
                /\ \E o \in poll_options :
                      /\ o.id = opts[i].ID
                      /\ o.poll_id = last.poll.ID
                      /\ o.value = opts[i].Value
                      /\ o.position = opts[i].Position
          /\ \A i, j \in DOMAIN opts : i < j => opts[i].ID < opts[j].ID
          /\ Cardinality(OptionsOf(last.poll.ID)) = Len(opts)

\* Insert of a second poll with the options ("Two", 1), ("One", 0) has
\* returned nil: they got the ids 3 and 4 in that order
C26_Witness ==
    /\ last.op = "Insert"
    /\ last.err = Nil
    /\ Len(last.poll.Options) = 2
    /\ last.poll.Options[1].Value = "Two"
    /\ last.poll.Options[1].ID = 3
    /\ last.poll.Options[2].Value = "One"
    /\ last.poll.Options[2].ID = 4
    /\ \E o \in poll_options : o.id = 3 /\ o.value = "Two" /\ o.position = 1

\* the ids in the result set of GetAll with an empty search, all pages taken
\* together
ListedUnfiltered == UNION {ListedIDs("", f) : f \in AllFilters}
GetReturns(id) == \E r \in Get(id) : r.err = Nil

\* C27: a poll row with no option row is returned neither by Get nor by any
\* page of GetAll; a public poll is returned by Get if and only if it is in
\* the result set of GetAll with an empty search; and GetAll lists no poll that
\* Get does not return.
C27_GetAndGetAllAgree ==
    /\ \A p \in polls :
          /\ OptionsOf(p.id) = {} =>
                /\ Get(p.id) = {[err |-> ErrRecordNotFound]}
                /\ p.id \notin ListedUnfiltered
          /\ ~p.is_private => (GetReturns(p.id) <=> p.id \in ListedUnfiltered)
    /\ \A id \in ListedUnfiltered : GetReturns(id)

\* the only option of a public poll has just been deleted: the poll row is
\* there and neither Get nor GetAll returns it; another public poll has its
\* option and both return it
C27_Witness ==
    /\ last.op = "PollOptions.Delete"
    /\ last.err = Nil
    /\ \E p \in polls :
          /\ ~p.is_private
          /\ OptionsOf(p.id) = {}
          /\ \E t \in tokens : t.poll_id = p.id
          /\ ~GetReturns(p.id)
    /\ \E q \in polls :
          /\ ~q.is_private
          /\ GetReturns(q.id)
          /\ q.id \in ListedUnfiltered

\* the address strings handed to checkIP: the well-formed ones and one that
\* net.ParseIP does not parse
CheckedAddresses == Addresses \cup {"not an address"}

\* C28: checkIP(pollID, ip) is true if and only if ips holds a row with that
\* poll id and the parsed address: it is false for an address that ips holds
\* for another poll only, for a poll with no row in ips, and for a string that
\* is no address.
C28_CheckIPIffLedgerRow ==
    \A id \in PollIDs : \A a \in CheckedAddresses :
       /\ checkIP(id, a) <=>
             /\ ParseIP(a) # << >>
             /\ [ip |-> ParseIP(a), poll_id |-> id] \in ips
       /\ (~\E r \in ips : r.poll_id = id) => ~checkIP(id, a)

\* one address is recorded for the second poll only, and the first poll has
\* another voter: checkIP of that address is true for the second poll and
\* false for the first
C28_Witness ==
    \E a, b \in Addresses : \E p, q \in PollIDs :
       /\ p # q
       /\ a # b
       /\ ips = {[ip |-> ParseIP(a), poll_id |-> q], [ip |-> ParseIP(b), poll_id |-> p]}
       /\ checkIP(q, a)
       /\ ~checkIP(p, a)
       /\ checkIP(p, b)

\* a poll exists and has no voter: checkIP is false for every address
C28_WitnessNoVoters ==
    \E p \in polls :
       /\ GetVotedIPs(p.id) = {}
       /\ ips # {}
       /\ \A a \in CheckedAddresses : ~checkIP(p.id, a)

====
